---- MODULE Spec2Model ----
(***************************************************************************)
(* Evenly-spaced streamlines: the Streamlines scheduler, the               *)
(* StreamlineIntegrator it drives, and the LookupGrid both of them query.  *)
(*                                                                         *)
(* Coordinates are integers counted in units of 1e-4, so that the fuzzy    *)
(* equality guard of StreamlineIntegrator.isSame (|a - b| < 1e-4) is       *)
(* exactly one unit wide.  Distances are irrational in general; every      *)
(* comparison of a distance d = sqrt(d2) against a threshold is carried    *)
(* out on the squared distance d2, which is an integer.                    *)
(***************************************************************************)
EXTENDS Integers, Sequences, FiniteSets, TLC

(***************************************************************************)
(* Bounds of the model.                                                    *)
(***************************************************************************)
\* live StreamlineIntegrator objects (the active one and the queued ones)
MaxIntegrators == 4
\* nextStep callbacks waiting in the host's timer queue
MaxTimeouts == 2

(***************************************************************************)
(* Program constants.                                                      *)
(***************************************************************************)
\* 1e-4 of StreamlineIntegrator.isSame, in units
Eps == 1
\* the length 1 in units (1 / 1e-4)
One == 10000
\* stepsPerIteration when unspecified or non-positive
DefaultStepsPerIteration == 10
\* timeStep when unspecified or non-positive: 0.01, in units
DefaultTimeStep == 100

(***************************************************************************)
(* Vector                                                                  *)
(***************************************************************************)
Vector(x, y) == [x |-> x, y |-> y]

\* the JavaScript value undefined
Undefined == [undefined |-> TRUE]

add(a, b) == Vector(a.x + b.x, a.y + b.y)

mulScalar(a, scalar) == Vector(a.x * scalar, a.y * scalar)

\* the square of the distance Cell.isTaken hands to its callback
DistSq(p, x, y) == (p.x - x) * (p.x - x) + (p.y - y) * (p.y - y)

\* sqrt(d2) < t
SqrtLess(d2, t) == t > 0 /\ d2 < t * t

\* sqrt(d2) > t
SqrtGreater(d2, t) == t < 0 \/ d2 > t * t

\* the smaller of the two taken instead
Max_AsMin(a, b) == IF a > b THEN b ELSE a

Max(a, b) == IF a > b THEN a ELSE b

\* Math.ceil(a / b) for b > 0
Ceil(a, b) == (a + b - 1) \div b

\* Math.sqrt on the perfect squares the fields below produce
Sqrt(l) == CHOOSE r \in 0..l : r * r = l

(***************************************************************************)
(* The vector fields a caller supplies.  A value is a vector, the vector   *)
(* with a NaN component, or undefined.                                     *)
(***************************************************************************)
NaNVector == [x |-> 0, y |-> 0, nan |-> TRUE]

FieldNames == {"east", "gap", "zero", "bounce", "hole"}

\* "east": flows in +x everywhere, with magnitude 2 below the line y = 6.
\* "gap" : flows in +x left of x = 7; right of it the field is undefined
\*         for y < 6, NaN for y in 6..11 and zero from y = 12 on.
\* "zero": the zero vector everywhere.
\* "bounce": flows in +x left of x = 6 and in -x from there on, so that a
\*         trace comes back onto its own points.
\* "hole": as "bounce", but undefined on the line x = 4, where the first
\*         step of a trace started at x = 0 lands.
vectorField(name, p) ==
    CASE name = "east" -> IF p.y < 6 THEN Vector(1, 0) ELSE Vector(2, 0)
      [] name = "bounce" -> IF p.x < 6 THEN Vector(1, 0) ELSE Vector(-1, 0)
      [] name = "hole" -> IF p.x = 4 THEN Undefined
                          ELSE IF p.x < 6 THEN Vector(1, 0)
                          ELSE Vector(-1, 0)
      [] name = "gap"  -> IF p.x < 7 THEN Vector(1, 0)
                          ELSE IF p.y < 6 THEN Undefined
                          ELSE IF p.y < 12 THEN NaNVector
                          ELSE Vector(0, 0)
      [] OTHER         -> Vector(0, 0)

(***************************************************************************)
(* LookupGrid.  spacing is the rational spNum / spDen.  cells is the set   *)
(* of points stored so far; the cell a point sits in is a function of its  *)
(* coordinates, and the queries are existential scans, so neither the      *)
(* order nor the multiplicity inside a cell influences an answer.          *)
(***************************************************************************)
LookupGrid(bbox, spNum, spDen) ==
    [bbox       |-> bbox,
     dSep       |-> [num |-> spNum, den |-> spDen],
     bboxSize   |-> Max(bbox.width, bbox.height),
     cellsCount |-> Ceil(Max(bbox.width, bbox.height) * spDen, spNum),
     cells      |-> {}]

gridX(g, x) == (g.cellsCount * (x - g.bbox.left)) \div g.bboxSize

gridY(g, y) == (g.cellsCount * (y - g.bbox.top)) \div g.bboxSize

\* the children of the Cell at column cx, row cy
Cell(g, cx, cy) == {p \in g.cells : gridX(g, p.x) = cx /\ gridY(g, p.y) = cy}

isOutside(g, x, y) ==
    \/ x < g.bbox.left
    \/ x > g.bbox.left + g.bbox.width
    \/ y < g.bbox.top
    \/ y > g.bbox.top + g.bbox.height

\* TRUE when assertInBounds does not throw
assertInBounds(g, x, y) ==
    /\ ~(g.bbox.left > x \/ g.bbox.left + g.bboxSize < x)
    /\ ~(g.bbox.top > y \/ g.bbox.top + g.bboxSize < y)

occupyCoordinates(g, point) == [g EXCEPT !.cells = @ \cup {point}]

\* The acceptance tests of StreamlineIntegrator, which the grids call back.

\* Math.abs(a - b) < 1e-4, where a = sqrt(d2)
isSame(d2, b) == SqrtGreater(d2, b - Eps) /\ SqrtLess(d2, b + Eps)

checkDTest(d2, config) ==
    IF isSame(d2, config.dTest) THEN FALSE
    ELSE SqrtLess(d2, config.dTest)

checkDSep(d2, config) ==
    IF isSame(d2, config.dSep) THEN FALSE
    ELSE SqrtLess(d2, config.dSep)

\* sqrt(d2) < timeStep * 0.9
timeStepCheck(d2, config) == 100 * d2 < 81 * config.timeStep * config.timeStep

\* method.bind(this): the callback handed to isTaken
bind(method, config) == [method |-> method, config |-> config]

\* checkCallback(distance), with the squared distance for argument
call(checkCallback, d2) ==
    CASE checkCallback.method = "checkDTest" ->
            checkDTest(d2, checkCallback.config)
      [] checkCallback.method = "checkDSep" ->
            checkDSep(d2, checkCallback.config)
      [] checkCallback.method = "timeStepCheck" ->
            timeStepCheck(d2, checkCallback.config)
      [] checkCallback.method = "lessThan" ->
            SqrtLess(d2, checkCallback.config.threshold)

isTaken(g, x, y, checkCallback) ==
    \E col \in -1..1 :
       /\ ~(gridX(g, x) + col < 0 \/ gridX(g, x) + col >= g.cellsCount)
       /\ \E row \in -1..1 :
             /\ ~(gridY(g, y) + row < 0 \/ gridY(g, y) + row >= g.cellsCount)
             /\ \E p \in Cell(g, gridX(g, x) + col, gridY(g, y) + row) :
                   call(checkCallback, DistSq(p, x, y))

\* a distance findNearest returns, by its square; Infinity when no cell
\* it scanned holds a point
Infinity == [infinite |-> TRUE, d2 |-> 0]

Distance(d2) == [infinite |-> FALSE, d2 |-> d2]

\* the points of the cells findNearest scans around (x, y)
Neighbours(g, x, y) ==
    UNION {Cell(g, gridX(g, x) + col, gridY(g, y) + row) :
              <<col, row>> \in {cr \in (-1..1) \X (-1..1) :
                 /\ ~(gridX(g, x) + cr[1] < 0
                        \/ gridX(g, x) + cr[1] >= g.cellsCount)
                 /\ ~(gridY(g, y) + cr[2] < 0
                        \/ gridY(g, y) + cr[2] >= g.cellsCount)}}

findNearest(g, x, y) ==
    IF Neighbours(g, x, y) = {} THEN Infinity
    ELSE LET nearest == CHOOSE p \in Neighbours(g, x, y) :
                           \A q \in Neighbours(g, x, y) :
                              DistSq(p, x, y) <= DistSq(q, x, y)
         IN Distance(DistSq(nearest, x, y))

\* what a caller of the grid remembers of its last query: the method, its
\* arguments, what it returned and how many times in a row it was made
Query(method, x, y, checkCallback, result, distance, calls) ==
    [method |-> method, x |-> x, y |-> y, checkCallback |-> checkCallback,
     result |-> result, distance |-> distance, calls |-> calls]

\* no query has been made since the grid was last written
NoQuery == Query("none", 0, 0, "", FALSE, Infinity, 0)

(***************************************************************************)
(* rk4: one classic fixed-step Runge-Kutta advance.  f is the name of the  *)
(* field; every stage samples the normalized field, and an undefined stage *)
(* makes the whole step undefined.  The result is the displacement         *)
(* h/6 (k1 + 2 k2 + 2 k3 + k4).                                            *)
(***************************************************************************)
normalize(vec) ==
    IF vec = Undefined THEN Undefined
    ELSE IF "nan" \in DOMAIN vec THEN Undefined
    ELSE LET l == vec.x * vec.x + vec.y * vec.y IN
         IF l = 0 THEN Undefined
         ELSE Vector(vec.x \div Sqrt(l), vec.y \div Sqrt(l))

\* the points at which a run of the model samples the field
Samples == [x : -12..36, y : -12..30]

\* the normalized fields, tabulated
NormalizedFields ==
    [f \in FieldNames |-> [p \in Samples |-> normalize(vectorField(f, p))]]

normalizedVectorField(f, p) == NormalizedFields[f][p]

rk4(pos, h, f) ==
    LET k1 == normalizedVectorField(f, pos)
        k2 == IF k1 = Undefined THEN Undefined
              ELSE normalizedVectorField(f, add(pos, mulScalar(k1, h \div 2)))
        k3 == IF k2 = Undefined THEN Undefined
              ELSE normalizedVectorField(f, add(pos, mulScalar(k2, h \div 2)))
        k4 == IF k3 = Undefined THEN Undefined
              ELSE normalizedVectorField(f, add(pos, mulScalar(k3, h)))
    IN IF k4 = Undefined THEN Undefined
       ELSE mulScalar(add(add(k1, mulScalar(k2, 2)),
                          add(mulScalar(k3, 2), k4)),
                      h \div 6)

(***************************************************************************)
(* StreamlineIntegrator                                                    *)
(***************************************************************************)
FORWARD == 1
BACKWARD == 2
DONE == 3

\* committed counts the calls of occupyPointInGrid this integrator made
StreamlineIntegrator(start, config) ==
    [start           |-> start,
     points          |-> <<start>>,
     pos             |-> start,
     state           |-> FORWARD,
     lastCheckedSeed |-> -1,
     ownGrid         |-> LookupGrid(config.boundingBox, 9 * config.timeStep, 10),
     committed       |-> 0]

growByVelocity(it, g, config, pos, velocity) ==
    LET candidate == add(pos, velocity) IN
    IF isOutside(g, candidate.x, candidate.y) THEN Undefined
    ELSE IF isTaken(g, candidate.x, candidate.y,
                    bind("checkDTest", config)) THEN Undefined
    ELSE IF isTaken(it.ownGrid, candidate.x, candidate.y,
                    bind("timeStepCheck", config)) THEN Undefined
    ELSE candidate

growForward(it, g, config) ==
    LET velocity == rk4(it.pos, config.timeStep, config.vectorField) IN
    IF velocity = Undefined THEN Undefined
    ELSE growByVelocity(it, g, config, it.pos, velocity)

growBackward(it, g, config) ==
    LET velocity == rk4(it.pos, config.timeStep, config.vectorField) IN
    IF velocity = Undefined THEN Undefined
    ELSE growByVelocity(it, g, config, it.pos, mulScalar(velocity, -1))

\* the FORWARD block turning to BACKWARD whatever forwardOnly says
nextForward_AlwaysBackward(it, g, config) ==
    LET point == growForward(it, g, config) IN
    IF point # Undefined
    THEN [it EXCEPT !.points = Append(@, point),
                    !.ownGrid = occupyCoordinates(@, point),
                    !.pos = point]
    ELSE [it EXCEPT !.pos = it.start, !.state = BACKWARD]

\* the FORWARD block putting the new point in front of the sequence
nextForward_Prepend(it, g, config) ==
    LET point == growForward(it, g, config) IN
    IF point # Undefined
    THEN [it EXCEPT !.points = <<point>> \o @,
                    !.ownGrid = occupyCoordinates(@, point),
                    !.pos = point]
    ELSE IF config.forwardOnly
         THEN [it EXCEPT !.state = DONE]
         ELSE [it EXCEPT !.pos = it.start, !.state = BACKWARD]

\* the FORWARD block of next(), up to the call of notifyPointAdded
nextForward(it, g, config) ==
    LET point == growForward(it, g, config) IN
    IF point # Undefined
    THEN [it EXCEPT !.points = Append(@, point),
                    !.ownGrid = occupyCoordinates(@, point),
                    !.pos = point]
    ELSE IF config.forwardOnly
         THEN [it EXCEPT !.state = DONE]
         ELSE [it EXCEPT !.pos = it.start, !.state = BACKWARD]

\* the BACKWARD block trying the forward direction again from the tail
\* when its candidate is rejected
nextBackward_Retry(it, g, config) ==
    LET point == growBackward(it, g, config) IN
    IF point # Undefined
    THEN [it EXCEPT !.points = <<point>> \o @,
                    !.pos = point,
                    !.ownGrid = occupyCoordinates(@, point)]
    ELSE [it EXCEPT !.pos = it.points[Len(it.points)], !.state = FORWARD]

\* the BACKWARD block of next(), up to the call of notifyPointAdded
nextBackward(it, g, config) ==
    LET point == growBackward(it, g, config) IN
    IF point # Undefined
    THEN [it EXCEPT !.points = <<point>> \o @,
                    !.pos = point,
                    !.ownGrid = occupyCoordinates(@, point)]
    ELSE [it EXCEPT !.state = DONE]

\* the point sequence next() ends with when no callback ever pauses it:
\* its loop run until the state is DONE
RECURSIVE nextUnpaused(_, _, _)
nextUnpaused(it, g, config) ==
    IF it.state = DONE THEN it.points
    ELSE IF it.state = FORWARD
    THEN nextUnpaused(nextForward(it, g, config), g, config)
    ELSE nextUnpaused(nextBackward(it, g, config), g, config)

\* the points that points.forEach(occupyPointInGrid) stores before
\* assertInBounds throws, all of them when it does not throw
RECURSIVE CommittedPrefix(_, _)
CommittedPrefix(g, points) ==
    IF points = <<>> THEN <<>>
    ELSE IF ~assertInBounds(g, Head(points).x, Head(points).y) THEN <<>>
    ELSE <<Head(points)>> \o CommittedPrefix(g, Tail(points))

RECURSIVE occupyAll(_, _)
occupyAll(g, points) ==
    IF points = <<>> THEN g
    ELSE occupyAll(occupyCoordinates(g, Head(points)), Tail(points))

\* the cursor a returned first-side candidate leaves, without the
\* statement this.lastCheckedSeed -= 1
afterFirstSide_NoStepBack(it) == it

\* this.lastCheckedSeed -= 1, before the first-side candidate is returned
afterFirstSide(it) == [it EXCEPT !.lastCheckedSeed = @ - 1]

\* the second candidate computed on the side of the first one
otherSide_SameSide(p, v, config) ==
    Vector(p.x - v.y * config.dSep, p.y + v.x * config.dSep)

\* (ox, oy): the candidate on the other side, o = p - n
otherSide(p, v, config) ==
    Vector(p.x + v.y * config.dSep, p.y - v.x * config.dSep)

\* the override taking the element of config.seedArray pushed last
seedOverride_Last(seedArray, c) ==
    IF Len(seedArray) > 0 THEN seedArray[Len(seedArray)] ELSE c

\* the override leaving the geometric candidate in place
seedOverride_Geometric(seedArray, c) == c

\* the candidate after the override: config.seedArray.shift() when the
\* array is not empty, the geometric candidate c otherwise
seedOverride(seedArray, c) ==
    IF Len(seedArray) > 0 THEN Head(seedArray) ELSE c

\* result of getNextValidSeed: the seed or undefined, the integrator with
\* its cursor moved, and what is left of config.seedArray
RECURSIVE getNextValidSeed(_, _, _, _)
getNextValidSeed(it, g, config, seedArray) ==
    IF ~(it.lastCheckedSeed < Len(it.points) - 1)
    THEN [seed |-> Undefined, it |-> it, seedArray |-> seedArray]
    ELSE
    LET it1 == [it EXCEPT !.lastCheckedSeed = @ + 1]
        p   == it1.points[it1.lastCheckedSeed + 1]
        v   == normalizedVectorField(config.vectorField, p)
    IN
    IF v = Undefined THEN getNextValidSeed(it1, g, config, seedArray)
    ELSE
    LET shift == Len(seedArray) > 0
        c   == seedOverride(seedArray, Vector(p.x - v.y * config.dSep,
                                              p.y + v.x * config.dSep))
        cx  == c.x
        cy  == c.y
        rest == IF shift THEN Tail(seedArray) ELSE seedArray
        ox  == otherSide(p, v, config).x
        oy  == otherSide(p, v, config).y
    IN
    IF /\ ~isOutside(g, cx, cy)
       /\ ~isTaken(g, cx, cy, bind("checkDSep", config))
    THEN [seed |-> Vector(cx, cy),
          it |-> afterFirstSide(it1),
          seedArray |-> rest]
    ELSE IF /\ ~isOutside(g, ox, oy)
            /\ ~isTaken(g, ox, oy, bind("checkDSep", config))
    THEN [seed |-> Vector(ox, oy), it |-> it1, seedArray |-> rest]
    ELSE getNextValidSeed(it1, g, config, rest)

(***************************************************************************)
(* Streamlines: the scheduler                                              *)
(***************************************************************************)
STATE_INIT == 0
STATE_STREAMLINE == 1
STATE_PROCESS_QUEUE == 2
STATE_DONE == 3
STATE_SEED_STREAMLINE == 4

VARIABLES
    protoOptions,                   \* the argument the constructor was given
    options,                        \* this.options; seedArray is consumed
    grid,                           \* this.grid, the shared LookupGrid
    stepsPerIteration,              \* this.stepsPerIteration
    resolve,                        \* TRUE once assignResolve stored one
    state,                          \* this.state
    nextTimeout,                    \* TRUE while the timer in this.nextTimeout is pending
    running,                        \* this.running
    streamlineIntegrator,           \* this.streamlineIntegrator, an id
    disposed,                       \* this.disposed
    finishedStreamlineIntegrators,  \* the queue, a sequence of ids
    integrators,                    \* the live StreamlineIntegrator objects, by id
    timeouts,                       \* nextStep callbacks pending in the host
    pc,                             \* where the turn in progress stands
    i,                              \* the loop counter of nextStep
    error,                          \* the last uncaught exception, "" if none
    resolved,                       \* calls of this.resolve so far
    added,                          \* points added by the call of next() in progress
    turn,                           \* what called nextStep last: "run", "timeout", "none"
    lastQuery,                      \* the last query a caller made of the shared grid
    turnSteps                       \* changes of this.state in the turn in progress

vars == <<protoOptions, options, grid, stepsPerIteration, resolve, state, nextTimeout,
          running, streamlineIntegrator, disposed,
          finishedStreamlineIntegrators, integrators, timeouts, pc, i,
          error, resolved, added, turnSteps, turn, lastQuery>>

Ids == 1..MaxIntegrators

Range(seq) == {seq[k] : k \in 1..Len(seq)}

(***************************************************************************)
(* The configurations a caller passes to the constructor.                  *)
(***************************************************************************)
\* JavaScript values of the fields of a bounding box: numbers, NaN, and
\* values of another type
Number(n) == [type |-> "number", value |-> n]
NaN == [type |-> "number", nan |-> TRUE]
String == [type |-> "string"]

typeof(x) == IF x = Undefined THEN "undefined" ELSE x.type

isNaN(x) == typeof(x) = "number" /\ "nan" \in DOMAIN x

\* bbox.size ignored
size_Ignored(bbox) == Undefined

\* no default box
DefaultBoundingBox_None == Undefined

\* an object {left, top, width, height} of numbers
BoundingBox(left, top, width, height) ==
    [left |-> Number(left), top |-> Number(top),
     width |-> Number(width), height |-> Number(height)]

\* the box the constructor creates when none is passed
DefaultBoundingBox == BoundingBox(-5 * One, -5 * One, 10 * One, 10 * One)

\* TRUE when assertNumber does not throw
assertNumber(x) == ~(typeof(x) # "number" \/ isNaN(x))

\* bbox.size, undefined when the object has no such property
size(bbox) == IF "size" \in DOMAIN bbox THEN bbox.size ELSE Undefined

\* normalizeBoundingBox: the message of the error it throws, or "" and the
\* box it leaves, with the numbers of its four fields
normalizeBoundingBox(bbox) ==
    LET requiredBoxMessage ==
            "Bounding box {left, top, width, height} is required"
        sized  == typeof(size(bbox)) = "number"
        width  == IF sized THEN bbox.size ELSE bbox.width
        height == IF sized THEN bbox.size ELSE bbox.height
    IN
    IF bbox = Undefined THEN [error |-> requiredBoxMessage]
    ELSE IF ~assertNumber(bbox.left) THEN [error |-> requiredBoxMessage]
    ELSE IF ~assertNumber(bbox.top) THEN [error |-> requiredBoxMessage]
    ELSE IF ~assertNumber(width) THEN [error |-> requiredBoxMessage]
    ELSE IF ~assertNumber(height) THEN [error |-> requiredBoxMessage]
    ELSE IF width.value <= 0 \/ height.value <= 0
    THEN [error |-> "Bounding box cannot be empty"]
    ELSE [error |-> "",
          bbox  |-> [left |-> bbox.left.value, top |-> bbox.top.value,
                     width |-> width.value, height |-> height.value]]

Boxes == {BoundingBox(0, 0, 12, 12), BoundingBox(0, 0, 15, 12)}

NoSeed == [kind |-> "none"]
PointSeed(v) == [kind |-> "point", point |-> v]
ArraySeed(a) == [kind |-> "array", array |-> a]

Seeds == {NoSeed,
          PointSeed(Vector(0, 0)),
          PointSeed(Vector(-6, 0)),
          PointSeed(Vector(0, 13)),
          ArraySeed(<<Vector(6, 6), Vector(0, 0), Vector(30, 0)>>),
          ArraySeed(<<Vector(6, 6), Vector(0, 0), Vector(12, 12)>>)}

\* the values Math.random() may return, as fractions
MathRandom == {[num |-> 1, den |-> 4], [num |-> 1, den |-> 2]}

\* Math.random() * width + left, Math.random() * height + top
RandomPoint(bbox, random) ==
    Vector((random.num * bbox.width) \div random.den + bbox.left,
           (random.num * bbox.height) \div random.den + bbox.top)

ProtoOptions ==
    [boundingBox       : Boxes,
     vectorField       : FieldNames \ {"bounce", "hole"},
     onStreamlineAdded : BOOLEAN,
     onPointAdded      : BOOLEAN,
     forwardOnly       : BOOLEAN,
     seed              : Seeds,
     dSep              : {6},
     dTest             : {0},
     timeStep          : {6},
     stepsPerIteration : {0, 1, 2},
     async             : BOOLEAN]
    \cup
    \* the field that turns a trace back onto itself, traced forward from
    \* the corner of the box whose far edges no trace reaches
    [boundingBox       : {BoundingBox(0, 0, 15, 12)},
     vectorField       : {"bounce"},
     onStreamlineAdded : {FALSE},
     onPointAdded      : BOOLEAN,
     forwardOnly       : {TRUE},
     seed              : {PointSeed(Vector(0, 0))},
     dSep              : {6},
     dTest             : {0},
     timeStep          : {6},
     stepsPerIteration : {0},
     async             : {FALSE}]
    \cup
    \* the field with a singular landing point, and a seed sequence long
    \* enough to outlast the examination of that point
    [boundingBox       : {BoundingBox(0, 0, 15, 12)},
     vectorField       : {"hole"},
     onStreamlineAdded : {FALSE},
     onPointAdded      : {FALSE},
     forwardOnly       : {TRUE},
     seed              : {ArraySeed(<<Vector(0, 0), Vector(0, 6),
                                      Vector(30, 0), Vector(0, 12)>>)},
     dSep              : {6},
     dTest             : {0},
     timeStep          : {6},
     stepsPerIteration : {0},
     async             : {FALSE}]

\* the fields the constructor assigns once the bounding box is normalized;
\* random is the point Math.random yields.
\* protoOptions.async is not among the options it copies, so options.async
\* is undefined, which run() reads as false
Streamlines(proto, random) ==
    LET bbox == proto.boundingBox
        seed == CASE proto.seed.kind = "none"  -> random
                  [] proto.seed.kind = "array" -> Head(proto.seed.array)
                  [] OTHER -> proto.seed.point
        dSep == IF proto.dSep > 0 THEN proto.dSep
                ELSE (One * One) \div Max(bbox.width, bbox.height)
        opts == [boundingBox       |-> bbox,
                 vectorField       |-> proto.vectorField,
                 onStreamlineAdded |-> proto.onStreamlineAdded,
                 onPointAdded      |-> proto.onPointAdded,
                 forwardOnly       |-> proto.forwardOnly,
                 seed              |-> seed,
                 seedArray         |-> IF proto.seed.kind = "array"
                                       THEN Tail(proto.seed.array)
                                       ELSE <<>>,
                 dSep              |-> dSep,
                 dTest             |-> IF proto.dTest > 0
                                       THEN proto.dTest
                                       ELSE dSep \div 2,
                 timeStep          |-> IF proto.timeStep > 0
                                       THEN proto.timeStep
                                       ELSE DefaultTimeStep,
                 stepsPerIteration |-> IF proto.stepsPerIteration > 0
                                       THEN proto.stepsPerIteration
                                       ELSE DefaultStepsPerIteration,
                 async             |-> FALSE]
    IN [options |-> opts,
        grid    |-> LookupGrid(bbox, dSep, 1),
        stepsPerIteration |-> opts.stepsPerIteration,
        streamlineIntegrator |-> StreamlineIntegrator(seed, opts)]

\* new Streamlines(protoOptions): the message of the error thrown, or ""
\* and the object
constructor(proto, random) ==
    IF proto = Undefined
    THEN [error |-> "Configuration is required to compute streamlines"]
    ELSE
    LET given == IF proto.boundingBox = Undefined THEN DefaultBoundingBox
                 ELSE proto.boundingBox
        n == normalizeBoundingBox(given)
    IN
    IF n.error # "" THEN [error |-> n.error]
    ELSE [error |-> "",
          this  |-> Streamlines([proto EXCEPT !.boundingBox = n.bbox],
                                RandomPoint(n.bbox, random))]

Init ==
    \E proto \in ProtoOptions :
    \E random \in MathRandom :
       LET this == constructor(proto, random).this IN
       /\ protoOptions = proto
       /\ options = this.options
       /\ grid = this.grid
       /\ stepsPerIteration = this.stepsPerIteration
       /\ resolve = FALSE
       /\ state = STATE_INIT
       /\ finishedStreamlineIntegrators = <<>>
       /\ streamlineIntegrator = 1
       /\ integrators = [id \in Ids |-> IF id = 1 THEN this.streamlineIntegrator
                                        ELSE Undefined]
       /\ disposed = FALSE
       /\ running = FALSE
       /\ nextTimeout = FALSE
       /\ timeouts = 0
       /\ pc = "idle"
       /\ i = 0
       /\ error = ""
       /\ resolved = 0
       /\ added = 0
       /\ turnSteps = 0
       /\ turn = "none"
       /\ lastQuery = NoQuery

(***************************************************************************)
(* nextStep.  One iteration of its loop runs the four handlers in the      *)
(* order initProcessing, continueStreamline, processQueue, seedStreamline, *)
(* each guarded by the value this.state has when its turn comes; then it   *)
(* checks the time budget and STATE_DONE ("tail").                         *)
(***************************************************************************)
\* the position of the handler guarded by state s in the chain
Rank(s) ==
    CASE s = STATE_INIT -> 1
      [] s = STATE_STREAMLINE -> 2
      [] s = STATE_PROCESS_QUEUE -> 3
      [] s = STATE_SEED_STREAMLINE -> 4
      [] OTHER -> 5

\* the next handler to run after the one at position after, in state s
Chain(after, s) ==
    IF Rank(s) > after /\ Rank(s) < 5
    THEN CASE s = STATE_PROCESS_QUEUE -> "processQueue"
           [] s = STATE_SEED_STREAMLINE -> "seedStreamline"
           [] OTHER -> "next"
    ELSE "tail"

\* nextStep without its test of this.disposed
BeginTurn_Unguarded(caller) ==
    /\ i' = 0
    /\ pc' = Chain(0, state)
    /\ added' = 0
    /\ turnSteps' = 0
    /\ turn' = caller

\* the top of nextStep
BeginTurn(caller) ==
    IF disposed
    THEN UNCHANGED <<pc, i, added, turnSteps, turn>>
    ELSE /\ i' = 0
         /\ pc' = Chain(0, state)
         /\ added' = 0
         /\ turnSteps' = 0
         /\ turn' = caller

run ==
    /\ pc = "idle"
    /\ timeouts < MaxTimeouts
    /\ IF options.async
       THEN IF running
            THEN UNCHANGED <<running, nextTimeout, timeouts, resolve, pc, i,
                             added, turnSteps, turn>>
            ELSE /\ running' = TRUE
                 /\ nextTimeout' = TRUE
                 /\ timeouts' = timeouts + 1
                 /\ resolve' = TRUE
                 /\ UNCHANGED <<pc, i, added, turnSteps, turn>>
       ELSE /\ BeginTurn("run")
            /\ UNCHANGED <<running, nextTimeout, timeouts, resolve>>
    /\ UNCHANGED <<protoOptions, lastQuery>>
    /\ UNCHANGED <<options, grid, stepsPerIteration, state,
                   streamlineIntegrator, disposed,
                   finishedStreamlineIntegrators, integrators, error,
                   resolved>>

\* the host runs the oldest pending nextStep callback
timeout ==
    /\ pc = "idle"
    /\ timeouts > 0
    /\ timeouts' = timeouts - 1
    /\ nextTimeout' = (nextTimeout /\ timeouts > 1)
    /\ BeginTurn("timeout")
    /\ UNCHANGED <<protoOptions, lastQuery>>
    /\ UNCHANGED <<options, grid, stepsPerIteration, resolve, state, running,
                   streamlineIntegrator, disposed,
                   finishedStreamlineIntegrators, integrators, error,
                   resolved>>

\* dispose(), called between turns or from inside a callback
dispose ==
    /\ pc \in {"idle", "onPointAdded", "onStreamlineAdded"}
    /\ disposed' = TRUE
    /\ nextTimeout' = FALSE
    /\ timeouts' = IF nextTimeout THEN timeouts - 1 ELSE timeouts
    /\ UNCHANGED <<protoOptions, lastQuery, turn>>
    /\ UNCHANGED <<options, grid, stepsPerIteration, resolve, state, running,
                   streamlineIntegrator, finishedStreamlineIntegrators,
                   integrators, pc, i, error, resolved, added, turnSteps>>

\* continueStreamline going to the queue check instead of the seed query
Completed_ToQueue(s) == STATE_PROCESS_QUEUE

\* continueStreamline staying in STATE_STREAMLINE on completion, so that
\* next() is called again on the integrator it queued
Completed_Continue(s) == STATE_STREAMLINE

\* initProcessing going to the seed query as continueStreamline does
Completed_ToSeed(s) == STATE_SEED_STREAMLINE

\* the state initProcessing / continueStreamline moves to on completion
Completed(s) ==
    IF s = STATE_INIT THEN STATE_PROCESS_QUEUE ELSE STATE_SEED_STREAMLINE

\* the FORWARD block storing each point in the shared grid as it is added
growForwardStep_Eager ==
    /\ pc = "next"
    /\ integrators[streamlineIntegrator].state = FORWARD
    /\ LET it  == integrators[streamlineIntegrator]
           it1 == nextForward(it, grid, options)
           grown == Len(it1.points) > Len(it.points)
       IN /\ integrators' = [integrators EXCEPT ![streamlineIntegrator] = it1]
          /\ grid' = IF grown THEN occupyCoordinates(grid, it1.pos) ELSE grid
          /\ added' = IF grown THEN added + 1 ELSE added
          /\ pc' = IF grown /\ options.onPointAdded THEN "onPointAdded"
                   ELSE "next"
    /\ UNCHANGED <<protoOptions, lastQuery, turn, options, stepsPerIteration, resolve, state,
                   nextTimeout, running, streamlineIntegrator, disposed,
                   finishedStreamlineIntegrators, timeouts, i, error,
                   resolved, turnSteps>>

\* the FORWARD block returning to the caller after every point it adds
growForwardStep_OnePoint ==
    /\ pc = "next"
    /\ integrators[streamlineIntegrator].state = FORWARD
    /\ LET it  == integrators[streamlineIntegrator]
           it1 == nextForward(it, grid, options)
           grown == Len(it1.points) > Len(it.points)
       IN /\ integrators' = [integrators EXCEPT ![streamlineIntegrator] = it1]
          /\ added' = IF grown THEN added + 1 ELSE added
          /\ pc' = IF grown
                   THEN IF options.onPointAdded THEN "onPointAdded"
                        ELSE Chain(Rank(state), state)
                   ELSE "next"
    /\ UNCHANGED <<protoOptions, lastQuery, turn, options, grid, stepsPerIteration, resolve,
                   state, nextTimeout, running, streamlineIntegrator, disposed,
                   finishedStreamlineIntegrators, timeouts, i, error,
                   resolved, turnSteps>>

\* next(): the FORWARD block
growForwardStep ==
    /\ pc = "next"
    /\ integrators[streamlineIntegrator].state = FORWARD
    /\ LET it  == integrators[streamlineIntegrator]
           it1 == nextForward(it, grid, options)
           grown == Len(it1.points) > Len(it.points)
       IN /\ integrators' = [integrators EXCEPT ![streamlineIntegrator] = it1]
          /\ added' = IF grown THEN added + 1 ELSE added
          /\ pc' = IF grown /\ options.onPointAdded THEN "onPointAdded"
                   ELSE "next"
    /\ UNCHANGED <<protoOptions, lastQuery, turn>>
    /\ UNCHANGED <<options, grid, stepsPerIteration, resolve, state,
                   nextTimeout, running, streamlineIntegrator, disposed,
                   finishedStreamlineIntegrators, timeouts, i, error,
                   resolved, turnSteps>>

\* next(): the BACKWARD block
growBackwardStep ==
    /\ pc = "next"
    /\ integrators[streamlineIntegrator].state = BACKWARD
    /\ LET it  == integrators[streamlineIntegrator]
           it1 == nextBackward(it, grid, options)
           grown == Len(it1.points) > Len(it.points)
       IN /\ integrators' = [integrators EXCEPT ![streamlineIntegrator] = it1]
          /\ added' = IF grown THEN added + 1 ELSE added
          /\ pc' = IF grown /\ options.onPointAdded THEN "onPointAdded"
                   ELSE "next"
    /\ UNCHANGED <<protoOptions, lastQuery, turn>>
    /\ UNCHANGED <<options, grid, stepsPerIteration, resolve, state,
                   nextTimeout, running, streamlineIntegrator, disposed,
                   finishedStreamlineIntegrators, timeouts, i, error,
                   resolved, turnSteps>>

\* a pause that also ends the direction the integrator is growing in
onPointAdded_PauseEndsDirection ==
    /\ pc = "onPointAdded"
    /\ \E shouldPause \in BOOLEAN :
          /\ pc' = IF shouldPause THEN Chain(Rank(state), state) ELSE "next"
          /\ integrators' =
                IF shouldPause
                THEN [integrators EXCEPT ![streamlineIntegrator].state = @ + 1]
                ELSE integrators
    /\ UNCHANGED <<protoOptions, lastQuery, turn>>
    /\ UNCHANGED <<options, grid, stepsPerIteration, resolve, state,
                   nextTimeout, running, streamlineIntegrator, disposed,
                   finishedStreamlineIntegrators, timeouts, i,
                   error, resolved, added, turnSteps>>

\* onPointAdded returns; a truthy value makes next() return undefined
onPointAdded ==
    /\ pc = "onPointAdded"
    /\ \E shouldPause \in BOOLEAN :
          pc' = IF shouldPause THEN Chain(Rank(state), state) ELSE "next"
    /\ UNCHANGED <<protoOptions, lastQuery, turn>>
    /\ UNCHANGED <<options, grid, stepsPerIteration, resolve, state,
                   nextTimeout, running, streamlineIntegrator, disposed,
                   finishedStreamlineIntegrators, integrators, timeouts, i,
                   error, resolved, added, turnSteps>>

\* next(): the DONE block, and addStreamLineToQueue up to the callback
completeStep ==
    /\ pc = "next"
    /\ integrators[streamlineIntegrator].state = DONE
    /\ LET it == integrators[streamlineIntegrator]
           stored == CommittedPrefix(grid, it.points)
           thrown == Len(stored) < Len(it.points)
           queued == Len(it.points) > 1
           called == queued /\ options.onStreamlineAdded
       IN /\ grid' = occupyAll(grid, stored)
          /\ integrators' = [integrators EXCEPT
                ![streamlineIntegrator].committed = @ + Len(stored)]
          /\ error' = IF thrown THEN "out of bounds" ELSE error
          /\ finishedStreamlineIntegrators' =
                IF ~thrown /\ queued
                THEN Append(finishedStreamlineIntegrators, streamlineIntegrator)
                ELSE finishedStreamlineIntegrators
          /\ state' = IF thrown \/ called THEN state ELSE Completed(state)
          /\ turnSteps' = IF thrown \/ called THEN turnSteps ELSE turnSteps + 1
          /\ pc' = IF thrown THEN "idle"
                   ELSE IF called THEN "onStreamlineAdded"
                   ELSE Chain(Rank(state), Completed(state))
    /\ UNCHANGED <<protoOptions, lastQuery, turn>>
    /\ UNCHANGED <<options, stepsPerIteration, resolve, nextTimeout, running,
                   streamlineIntegrator, disposed, timeouts, i, resolved,
                   added>>

\* onStreamlineAdded returns; the handler then sets this.state
onStreamlineAdded ==
    /\ pc = "onStreamlineAdded"
    /\ state' = Completed(state)
    /\ turnSteps' = turnSteps + 1
    /\ pc' = Chain(Rank(state), Completed(state))
    /\ UNCHANGED <<protoOptions, lastQuery, turn>>
    /\ UNCHANGED <<options, grid, stepsPerIteration, resolve, nextTimeout,
                   running, streamlineIntegrator, disposed,
                   finishedStreamlineIntegrators, integrators, timeouts, i,
                   error, resolved, added>>

processQueue ==
    /\ pc = "processQueue"
    /\ state' = IF Len(finishedStreamlineIntegrators) = 0 THEN STATE_DONE
                ELSE STATE_SEED_STREAMLINE
    /\ turnSteps' = turnSteps + 1
    /\ pc' = Chain(3, state')
    /\ UNCHANGED <<protoOptions, lastQuery, turn>>
    /\ UNCHANGED <<options, grid, stepsPerIteration, resolve, nextTimeout,
                   running, streamlineIntegrator, disposed,
                   finishedStreamlineIntegrators, integrators, timeouts, i,
                   error, resolved, added>>

\* an id no live integrator holds once the active one is replaced
FreeIds == Ids \ Range(finishedStreamlineIntegrators)

\* seedStreamline asking the integrator queued last
currentStreamLine_Last ==
    finishedStreamlineIntegrators[Len(finishedStreamlineIntegrators)]

\* var currentStreamLine = this.finishedStreamlineIntegrators[0]
currentStreamLine == Head(finishedStreamlineIntegrators)

seedStreamline ==
    /\ pc = "seedStreamline"
    /\ IF Len(finishedStreamlineIntegrators) = 0
       THEN \* currentStreamLine is undefined
            /\ error' = "TypeError"
            /\ pc' = "idle"
            /\ UNCHANGED <<options, state, streamlineIntegrator,
                           finishedStreamlineIntegrators, integrators, added,
                           turnSteps>>
       ELSE LET head == currentStreamLine
                r == getNextValidSeed(integrators[head], grid, options,
                                      options.seedArray)
            IN /\ options' = [options EXCEPT !.seedArray = r.seedArray]
               /\ IF r.seed # Undefined
                  THEN /\ FreeIds # {}
                       /\ LET new == CHOOSE id \in FreeIds :
                                        \A other \in FreeIds : id <= other
                          IN /\ streamlineIntegrator' = new
                             /\ integrators' = [id \in Ids |->
                                   IF id = new
                                   THEN StreamlineIntegrator(r.seed, options')
                                   ELSE IF id = head THEN r.it
                                   ELSE IF id \in Range(finishedStreamlineIntegrators)
                                   THEN integrators[id]
                                   ELSE Undefined]
                       /\ state' = STATE_STREAMLINE
                       /\ UNCHANGED finishedStreamlineIntegrators
                  ELSE /\ finishedStreamlineIntegrators' =
                             Tail(finishedStreamlineIntegrators)
                       /\ state' = STATE_PROCESS_QUEUE
                       /\ integrators' = [id \in Ids |->
                             IF id = head
                             THEN IF id = streamlineIntegrator THEN r.it
                                  ELSE Undefined
                             ELSE integrators[id]]
                       /\ UNCHANGED streamlineIntegrator
               /\ turnSteps' = turnSteps + 1
               /\ pc' = "tail"
               /\ UNCHANGED <<error, added>>
    /\ UNCHANGED <<protoOptions, lastQuery, turn>>
    /\ UNCHANGED <<grid, stepsPerIteration, resolve, nextTimeout, running,
                   disposed, timeouts, i, resolved>>

\* the end of one iteration with the loop test i <= stepsPerIteration
tail_OneMoreIteration ==
    /\ pc = "tail"
    /\ \E timeExceeded \in BOOLEAN :
          IF timeExceeded \/ (state # STATE_DONE /\ ~(i + 1 <= stepsPerIteration))
          THEN /\ nextTimeout' = TRUE
               /\ timeouts' = timeouts + 1
               /\ pc' = "idle"
               /\ UNCHANGED <<i, error, resolved, added>>
          ELSE IF state = STATE_DONE
          THEN /\ IF resolve
                  THEN /\ resolved' = resolved + 1
                       /\ UNCHANGED error
                  ELSE /\ error' = "TypeError"
                       /\ UNCHANGED resolved
               /\ pc' = "idle"
               /\ UNCHANGED <<nextTimeout, timeouts, i, added>>
          ELSE /\ i' = i + 1
               /\ pc' = Chain(0, state)
               /\ added' = 0
               /\ UNCHANGED <<nextTimeout, timeouts, error, resolved>>
    /\ UNCHANGED <<protoOptions, lastQuery, turn, options, grid, stepsPerIteration, resolve,
                   state, running, streamlineIntegrator, disposed,
                   finishedStreamlineIntegrators, integrators, turnSteps>>

\* the end of one iteration leaving the loop without a follow-up turn
\* once dispose() was called
tail_Disposed ==
    /\ pc = "tail"
    /\ \E timeExceeded \in BOOLEAN :
          IF disposed
          THEN /\ pc' = "idle"
               /\ UNCHANGED <<nextTimeout, timeouts, i, error, resolved,
                              added>>
          ELSE IF timeExceeded
                  \/ (state # STATE_DONE /\ ~(i + 1 < stepsPerIteration))
          THEN /\ nextTimeout' = TRUE
               /\ timeouts' = timeouts + 1
               /\ pc' = "idle"
               /\ UNCHANGED <<i, error, resolved, added>>
          ELSE IF state = STATE_DONE
          THEN /\ IF resolve
                  THEN /\ resolved' = resolved + 1
                       /\ UNCHANGED error
                  ELSE /\ error' = "TypeError"
                       /\ UNCHANGED resolved
               /\ pc' = "idle"
               /\ UNCHANGED <<nextTimeout, timeouts, i, added>>
          ELSE /\ i' = i + 1
               /\ pc' = Chain(0, state)
               /\ added' = 0
               /\ UNCHANGED <<nextTimeout, timeouts, error, resolved>>
    /\ UNCHANGED <<protoOptions, lastQuery, turn>>
    /\ UNCHANGED <<options, grid, stepsPerIteration, resolve, state, running,
                   streamlineIntegrator, disposed,
                   finishedStreamlineIntegrators, integrators, turnSteps>>

\* the end of one iteration: the time budget, STATE_DONE, the loop test
tail ==
    /\ pc = "tail"
    /\ \E timeExceeded \in BOOLEAN :
          IF timeExceeded \/ (state # STATE_DONE /\ ~(i + 1 < stepsPerIteration))
          THEN \* leave the loop and schedule the next turn
               /\ nextTimeout' = TRUE
               /\ timeouts' = timeouts + 1
               /\ pc' = "idle"
               /\ UNCHANGED <<i, error, resolved, added>>
          ELSE IF state = STATE_DONE
          THEN /\ IF resolve
                  THEN /\ resolved' = resolved + 1
                       /\ UNCHANGED error
                  ELSE /\ error' = "TypeError"
                       /\ UNCHANGED resolved
               /\ pc' = "idle"
               /\ UNCHANGED <<nextTimeout, timeouts, i, added>>
          ELSE /\ i' = i + 1
               /\ pc' = Chain(0, state)
               /\ added' = 0
               /\ UNCHANGED <<nextTimeout, timeouts, error, resolved>>
    /\ UNCHANGED <<protoOptions, lastQuery, turn>>
    /\ UNCHANGED <<options, grid, stepsPerIteration, resolve, state, running,
                   streamlineIntegrator, disposed,
                   finishedStreamlineIntegrators, integrators, turnSteps>>

Next ==
    \/ run
    \/ timeout
    \/ dispose
    \/ growForwardStep
    \/ growBackwardStep
    \/ onPointAdded
    \/ completeStep
    \/ onStreamlineAdded
    \/ processQueue
    \/ seedStreamline
    \/ tail

Spec == Init /\ [][Next]_vars

\* The host runs every pending timer, every call in progress continues and
\* every callback returns; the caller keeps calling run() as long as it
\* can.  Nothing obliges anyone to call dispose().  For the four steps
\* that query the grids, weak fairness is written out with the states in
\* which the step is enabled.
Fairness ==
    /\ WF_vars(run)
    /\ WF_vars(timeout)
    /\ WF_vars(onPointAdded)
    /\ WF_vars(onStreamlineAdded)
    /\ WF_vars(processQueue)
    /\ WF_vars(tail)
    /\ \/ []<>(~(pc = "next"
                 /\ integrators[streamlineIntegrator].state = FORWARD))
       \/ []<><<growForwardStep>>_vars
    /\ \/ []<>(~(pc = "next"
                 /\ integrators[streamlineIntegrator].state = BACKWARD))
       \/ []<><<growBackwardStep>>_vars
    /\ \/ []<>(~(pc = "next"
                 /\ integrators[streamlineIntegrator].state = DONE))
       \/ []<><<completeStep>>_vars
    /\ \/ []<>(~(pc = "seedStreamline"))
       \/ []<><<seedStreamline>>_vars

\* the configurations whose seed lies inside the box
LiveInit ==
    /\ Init
    /\ protoOptions.seed = PointSeed(Vector(0, 0))
    /\ protoOptions.stepsPerIteration > 0

LiveSpec == LiveInit /\ [][Next]_vars /\ Fairness

(***************************************************************************)
(* Construction.  ConstructorSpec starts before new Streamlines(...) is    *)
(* evaluated: protoOptions holds the argument, no field has a value yet,   *)
(* and the one step is the constructor, which either throws or leaves the  *)
(* object Init describes.                                                  *)
(***************************************************************************)
\* a configuration without a vectorField
NoField == "undefined"

\* an object with the four fields and size
SizedBox(left, top, width, height, sz) ==
    [left |-> left, top |-> top, width |-> width, height |-> height,
     size |-> sz]

AnyBoxes ==
    {Undefined,
     BoundingBox(0, 0, 12, 12),
     BoundingBox(0, 0, One, One),
     BoundingBox(-One, 0, 2 * One, One),
     BoundingBox(0, 0, 0, 12),
     BoundingBox(0, 0, 12, -3),
     [left |-> Number(0), top |-> Number(0), width |-> NaN,
      height |-> Number(12)],
     [left |-> Number(0), top |-> Number(0), width |-> Number(12),
      height |-> Undefined],
     [left |-> Undefined, top |-> Number(0), width |-> Number(12),
      height |-> Number(12)],
     [left |-> Number(0), top |-> String, width |-> Number(12),
      height |-> Number(12)],
     SizedBox(Number(0), Number(0), Undefined, Undefined, Number(12)),
     SizedBox(Number(0), Number(0), Number(12), Number(12), Number(0)),
     SizedBox(Number(0), Number(0), Number(12), Number(12), NaN),
     SizedBox(Number(0), Number(0), Number(12), Number(12), String),
     SizedBox(Number(0), Number(0), Number(0), Number(0), String)}

\* config.random: absent, or a source that returns 1/4 at every call
ConfiguredRandom == {Undefined, [num |-> 1, den |-> 4]}

AnyProtoOptions ==
    [boundingBox       : AnyBoxes,
     vectorField       : FieldNames \cup {NoField},
     onStreamlineAdded : {FALSE},
     onPointAdded      : {FALSE},
     forwardOnly       : {FALSE},
     seed              : {NoSeed, PointSeed(Vector(0, 0))},
     dSep              : {0, 6},
     dTest             : {0, 2},
     timeStep          : {0, 6},
     stepsPerIteration : {0},
     async             : {FALSE},
     random            : ConfiguredRandom]
    \cup {Undefined}

ConstructorInit ==
    /\ protoOptions \in AnyProtoOptions
    /\ pc = "new"
    /\ options = Undefined
    /\ grid = Undefined
    /\ stepsPerIteration = 0
    /\ resolve = FALSE
    /\ state = STATE_INIT
    /\ finishedStreamlineIntegrators = <<>>
    /\ streamlineIntegrator = 1
    /\ integrators = [id \in Ids |-> Undefined]
    /\ disposed = FALSE
    /\ running = FALSE
    /\ nextTimeout = FALSE
    /\ timeouts = 0
    /\ i = 0
    /\ error = ""
    /\ resolved = 0
    /\ added = 0
    /\ turnSteps = 0
    /\ turn = "none"
    /\ lastQuery = NoQuery

\* new Streamlines(protoOptions)
new ==
    /\ pc = "new"
    /\ \E random \in MathRandom :
          LET r == constructor(protoOptions, random) IN
          IF r.error # ""
          THEN /\ error' = r.error
               /\ pc' = "thrown"
               /\ UNCHANGED <<options, grid, stepsPerIteration, integrators>>
          ELSE /\ options' = r.this.options
               /\ grid' = r.this.grid
               /\ stepsPerIteration' = r.this.stepsPerIteration
               /\ integrators' = [id \in Ids |->
                                    IF id = 1 THEN r.this.streamlineIntegrator
                                    ELSE Undefined]
               /\ pc' = "idle"
               /\ UNCHANGED error
    /\ UNCHANGED <<protoOptions, lastQuery, turn>>
    /\ UNCHANGED <<resolve, state, finishedStreamlineIntegrators,
                   streamlineIntegrator, disposed, running, nextTimeout,
                   timeouts, i, resolved, added, turnSteps>>

ConstructorSpec == ConstructorInit /\ [][new]_vars

(***************************************************************************)
(* The shared LookupGrid seen from a caller: points are stored with        *)
(* occupyCoordinates and the three queries are called in any order.  A     *)
(* step is one call; lastQuery remembers the last query and its answer     *)
(* until the next write.                                                   *)
(***************************************************************************)
\* identical calls in a row that are told apart
MaxCalls == 2

\* the points a caller stores; (13, 0) and (-1, 0) fail assertInBounds in
\* the square box
GridPoints == {Vector(0, 0), Vector(3, 3), Vector(6, 6), Vector(12, 6),
               Vector(13, 0), Vector(-1, 0), Vector(10, 0)}

\* the coordinates a caller asks about
QueryPoints == {Vector(0, 0), Vector(6, 6), Vector(12, 6), Vector(13, 13),
                Vector(4, 0)}

\* the predicates the integrators pass to isTaken
Callbacks == {"checkDSep", "checkDTest", "timeStepCheck"}

\* the configurations whose grid is exercised: two boxes, and a spacing
\* that divides the box (6) and one that does not (7)
GridProtoOptions ==
    [boundingBox       : Boxes,
     vectorField       : {"east"},
     onStreamlineAdded : {FALSE},
     onPointAdded      : {FALSE},
     forwardOnly       : {FALSE},
     seed              : {PointSeed(Vector(0, 0))},
     dSep              : {6, 7},
     dTest             : {0},
     timeStep          : {6},
     stepsPerIteration : {0},
     async             : {FALSE}]

GridInit ==
    \E proto \in GridProtoOptions :
    \E random \in MathRandom :
       LET this == constructor(proto, random).this IN
       /\ protoOptions = proto
       /\ options = this.options
       /\ grid = this.grid
       /\ stepsPerIteration = this.stepsPerIteration
       /\ resolve = FALSE
       /\ state = STATE_INIT
       /\ finishedStreamlineIntegrators = <<>>
       /\ streamlineIntegrator = 1
       /\ integrators = [id \in Ids |-> IF id = 1 THEN this.streamlineIntegrator
                                        ELSE Undefined]
       /\ disposed = FALSE
       /\ running = FALSE
       /\ nextTimeout = FALSE
       /\ timeouts = 0
       /\ pc = "grid"
       /\ i = 0
       /\ error = ""
       /\ resolved = 0
       /\ added = 0
       /\ turnSteps = 0
       /\ turn = "none"
       /\ lastQuery = NoQuery

\* how many times in a row the query was made, this call included
Calls(method, x, y, checkCallback) ==
    IF /\ lastQuery.method = method
       /\ lastQuery.x = x
       /\ lastQuery.y = y
       /\ lastQuery.checkCallback = checkCallback
       /\ lastQuery.calls < MaxCalls
    THEN lastQuery.calls + 1
    ELSE IF /\ lastQuery.method = method
            /\ lastQuery.x = x
            /\ lastQuery.y = y
            /\ lastQuery.checkCallback = checkCallback
    THEN lastQuery.calls
    ELSE 1

\* grid.occupyCoordinates(point); assertInBounds may throw
callOccupyCoordinates ==
    /\ pc = "grid"
    /\ \E point \in GridPoints :
          IF assertInBounds(grid, point.x, point.y)
          THEN /\ grid' = occupyCoordinates(grid, point)
               /\ error' = ""
          ELSE /\ error' = "out of bounds"
               /\ UNCHANGED grid
    /\ lastQuery' = NoQuery
    /\ UNCHANGED <<protoOptions, options, stepsPerIteration, resolve, state,
                   nextTimeout, running, streamlineIntegrator, disposed,
                   finishedStreamlineIntegrators, integrators, timeouts, pc,
                   i, resolved, added, turnSteps, turn>>

\* a call of isTaken that stored the point it was asked about, as
\* getCellByCoordinates(x, y).occupy would
callIsTaken_Occupying ==
    /\ pc = "grid"
    /\ \E q \in QueryPoints : \E method \in Callbacks :
          /\ lastQuery' = Query("isTaken", q.x, q.y, method,
                                isTaken(grid, q.x, q.y, bind(method, options)),
                                Infinity,
                                Calls("isTaken", q.x, q.y, method))
          /\ grid' = IF assertInBounds(grid, q.x, q.y)
                     THEN occupyCoordinates(grid, q)
                     ELSE grid
    /\ UNCHANGED <<protoOptions, options, stepsPerIteration, resolve, state,
                   nextTimeout, running, streamlineIntegrator, disposed,
                   finishedStreamlineIntegrators, integrators, timeouts, pc,
                   i, error, resolved, added, turnSteps, turn>>

\* grid.isTaken(x, y, checkCallback): it reads this.cells with Map.get
\* and the children of the cells, and assigns nothing
callIsTaken ==
    /\ pc = "grid"
    /\ \E q \in QueryPoints : \E method \in Callbacks :
          lastQuery' = Query("isTaken", q.x, q.y, method,
                             isTaken(grid, q.x, q.y, bind(method, options)),
                             Infinity,
                             Calls("isTaken", q.x, q.y, method))
    /\ UNCHANGED <<protoOptions, options, grid, stepsPerIteration, resolve,
                   state, nextTimeout, running, streamlineIntegrator,
                   disposed, finishedStreamlineIntegrators, integrators,
                   timeouts, pc, i, error, resolved, added, turnSteps, turn>>

\* grid.findNearest(x, y)
callFindNearest ==
    /\ pc = "grid"
    /\ \E q \in QueryPoints :
          lastQuery' = Query("findNearest", q.x, q.y, "", FALSE,
                             findNearest(grid, q.x, q.y),
                             Calls("findNearest", q.x, q.y, ""))
    /\ UNCHANGED <<protoOptions, options, grid, stepsPerIteration, resolve,
                   state, nextTimeout, running, streamlineIntegrator,
                   disposed, finishedStreamlineIntegrators, integrators,
                   timeouts, pc, i, error, resolved, added, turnSteps, turn>>

\* grid.isOutside(x, y)
callIsOutside ==
    /\ pc = "grid"
    /\ \E q \in QueryPoints :
          lastQuery' = Query("isOutside", q.x, q.y, "",
                             isOutside(grid, q.x, q.y), Infinity,
                             Calls("isOutside", q.x, q.y, ""))
    /\ UNCHANGED <<protoOptions, options, grid, stepsPerIteration, resolve,
                   state, nextTimeout, running, streamlineIntegrator,
                   disposed, finishedStreamlineIntegrators, integrators,
                   timeouts, pc, i, error, resolved, added, turnSteps, turn>>

GridNext ==
    \/ callOccupyCoordinates
    \/ callIsTaken
    \/ callFindNearest
    \/ callIsOutside

GridSpec == GridInit /\ [][GridNext]_vars

(***************************************************************************)
(* Properties                                                              *)
(***************************************************************************)
Live == {streamlineIntegrator} \cup Range(finishedStreamlineIntegrators)

Active == integrators[streamlineIntegrator]

\* C1: this.state changes only along INIT -> PROCESS_QUEUE (the initial
\* integrator completed), STREAMLINE -> SEED_STREAMLINE (the current
\* integrator completed), PROCESS_QUEUE -> DONE (queue empty),
\* PROCESS_QUEUE -> SEED_STREAMLINE (queue non-empty), SEED_STREAMLINE ->
\* STREAMLINE (the queue head returned a seed and a new integrator was
\* created there) and SEED_STREAMLINE -> PROCESS_QUEUE (the queue head
\* returned none and was popped); no step leaves DONE.
C1_SchedulerEdges ==
    [][state' # state =>
         \/ /\ state = STATE_INIT /\ state' = STATE_PROCESS_QUEUE
            /\ Active.state = DONE
         \/ /\ state = STATE_STREAMLINE /\ state' = STATE_SEED_STREAMLINE
            /\ Active.state = DONE
         \/ /\ state = STATE_PROCESS_QUEUE /\ state' = STATE_DONE
            /\ finishedStreamlineIntegrators = <<>>
         \/ /\ state = STATE_PROCESS_QUEUE /\ state' = STATE_SEED_STREAMLINE
            /\ finishedStreamlineIntegrators # <<>>
         \/ /\ state = STATE_SEED_STREAMLINE /\ state' = STATE_STREAMLINE
            /\ finishedStreamlineIntegrators # <<>>
            /\ finishedStreamlineIntegrators' = finishedStreamlineIntegrators
            /\ LET r == getNextValidSeed(
                           integrators[Head(finishedStreamlineIntegrators)],
                           grid, options, options.seedArray)
               IN /\ r.seed # Undefined
                  /\ integrators'[streamlineIntegrator'].start = r.seed
                  /\ integrators'[streamlineIntegrator'].points = <<r.seed>>
                  /\ integrators'[streamlineIntegrator'].state = FORWARD
         \/ /\ state = STATE_SEED_STREAMLINE /\ state' = STATE_PROCESS_QUEUE
            /\ finishedStreamlineIntegrators # <<>>
            /\ finishedStreamlineIntegrators' = Tail(finishedStreamlineIntegrators)
            /\ getNextValidSeed(
                  integrators[Head(finishedStreamlineIntegrators)],
                  grid, options, options.seedArray).seed = Undefined
    ]_vars

\* C1 witness: the scheduler went through the whole cycle: more than one
\* streamline was committed and the queue was drained
C1_Witness ==
    /\ state = STATE_DONE
    /\ Cardinality(grid.cells) > 4
    /\ finishedStreamlineIntegrators = <<>>

\* the queue head has a seed to offer and MaxIntegrators objects are live
Saturated ==
    /\ pc = "seedStreamline"
    /\ finishedStreamlineIntegrators # <<>>
    /\ FreeIds = {}
    /\ getNextValidSeed(integrators[Head(finishedStreamlineIntegrators)],
                        grid, options, options.seedArray).seed # Undefined

\* C2: if dispose() is never called, repeated turns eventually bring the
\* scheduler to STATE_DONE, for every configuration the constructor
\* accepts (as far as MaxIntegrators lets the computation go).
C2_Termination ==
    ([]~disposed /\ []~Saturated) => <>(state = STATE_DONE)

\* C3: in every reachable state any two points of different streamlines
\* are at least dTest - 1e-4 apart.
C3_Separation ==
    \A a \in Live : \A b \in Live \ {a} :
       \A p \in Range(integrators[a].points) :
          \A q \in Range(integrators[b].points) :
             ~SqrtLess(DistSq(p, q.x, q.y), options.dTest - Eps)

\* C4: no point of any streamline, the initial seed included, lies outside
\* the bounding box.
C4_Containment ==
    \A id \in Live :
       \A p \in Range(integrators[id].points) : ~isOutside(grid, p.x, p.y)

\* C5: every point of every integrator is stored in the shared grid exactly
\* once: not before the integrator is DONE, all of them once the call of
\* next() that found it DONE has ended, and never again.
C5_CommittedOnce ==
    \A id \in Live :
       LET it == integrators[id] IN
       /\ it.state # DONE => it.committed = 0
       /\ (it.state = DONE /\ ~(pc = "next" /\ id = streamlineIntegrator))
             => it.committed = Len(it.points)

\* C6: only the completion step of the active integrator writes the
\* shared grid: a step that changes the grid is taken inside next() of the
\* active integrator, whose state is DONE, and adds none but its points;
\* in particular the grid is unchanged while that integrator is FORWARD or
\* BACKWARD, also when a callback paused it, and during a seed query.
C6_SharedGridWriter ==
    [][grid' # grid =>
         /\ pc = "next"
         /\ Active.state = DONE
         /\ streamlineIntegrator' = streamlineIntegrator
         /\ grid'.cells \subseteq grid.cells \cup Range(Active.points)
         /\ [grid' EXCEPT !.cells = {}] = [grid EXCEPT !.cells = {}]
    ]_vars

\* C6 witness: a growing integrator is paused in its callback with more
\* than one point while earlier streamlines sit in the shared grid
C6_Witness ==
    /\ pc = "onPointAdded"
    /\ Active.state \in {FORWARD, BACKWARD}
    /\ Len(Active.points) > 1
    /\ grid.cells # {}
    /\ Range(Active.points) \cap grid.cells = {}

\* the integrator held under id before the step is the one held after it
SameObject(id) ==
    /\ id \in Live
    /\ id \in Live'
    /\ ~(state = STATE_SEED_STREAMLINE /\ state' = STATE_STREAMLINE
         /\ id = streamlineIntegrator')

\* C7: an integrator starts in FORWARD; its state moves only FORWARD ->
\* BACKWARD -> DONE when forwardOnly is false and only FORWARD -> DONE when
\* forwardOnly is true; it never moves back and never leaves DONE.
C7_IntegratorStates ==
    [][/\ \A id \in Ids :
            (SameObject(id) /\ integrators'[id].state # integrators[id].state)
            => IF options.forwardOnly
               THEN integrators[id].state = FORWARD
                    /\ integrators'[id].state = DONE
               ELSE \/ integrators[id].state = FORWARD
                       /\ integrators'[id].state = BACKWARD
                    \/ integrators[id].state = BACKWARD
                       /\ integrators'[id].state = DONE
       /\ (state = STATE_SEED_STREAMLINE /\ state' = STATE_STREAMLINE)
            => integrators'[streamlineIntegrator'].state = FORWARD
    ]_vars

\* C7 witness: an integrator that grew in both directions is DONE
C7_Witness ==
    \E id \in Live :
       /\ integrators[id].state = DONE
       /\ ~options.forwardOnly
       /\ Len(integrators[id].points) > 2
       /\ integrators[id].points[1] # integrators[id].start
       /\ integrators[id].points[Len(integrators[id].points)]
             # integrators[id].start

\* C8 as stated: a call of next() has added at most one point when it
\* returns to the scheduler.
C8_OnePointPerCall ==
    pc \notin {"next", "onPointAdded"} => added <= 1

\* C8: every pass of the loop in next() adds at most one point to the
\* active integrator, but next() returns to the scheduler only from an
\* onPointAdded callback (which returned a truthy value) or when the
\* integrator is DONE; a call adds no more points than the streamline has
\* besides its seed.
C8_OnePointPerPass ==
    [][/\ (pc \in {"next", "onPointAdded"}
           /\ streamlineIntegrator' = streamlineIntegrator
           /\ integrators'[streamlineIntegrator] # Undefined)
          => /\ Len(integrators'[streamlineIntegrator].points)
                   <= Len(Active.points) + 1
             /\ added' <= added + 1
             /\ added' < Len(integrators'[streamlineIntegrator].points)
       /\ (pc \in {"next", "onPointAdded"}
           /\ pc' \notin {"next", "onPointAdded"})
          => pc = "onPointAdded" \/ Active.state = DONE
    ]_vars

\* C8 witness: a call of next() with no onPointAdded callback returned
\* after adding more than one point
C8_Witness ==
    /\ ~options.onPointAdded
    /\ pc = "tail"
    /\ added > 1

\* C9: once dispose() was called and the turn it was called in (if any)
\* has ended, no step changes the scheduler state, the active integrator,
\* the finished queue, the integrators or the shared grid, and resolve is
\* not called.
C9_DisposeFreezes ==
    [][(disposed /\ pc = "idle") =>
          UNCHANGED <<state, streamlineIntegrator,
                      finishedStreamlineIntegrators, integrators, grid,
                      options, resolved, error, pc>>
    ]_vars

\* C9 witness: disposed in the middle of the computation, between turns,
\* with a nextStep callback still pending
C9_Witness ==
    /\ disposed
    /\ pc = "idle"
    /\ timeouts > 0
    /\ state = STATE_STREAMLINE
    /\ grid.cells # {}

\* C10 as stated: a turn changes this.state at most stepsPerIteration
\* times.
C10_TransitionsPerTurn ==
    turnSteps <= stepsPerIteration

\* C10: a turn runs at most stepsPerIteration iterations of the loop of
\* nextStep, stepsPerIteration being 10 when unspecified or non-positive;
\* an iteration runs the handlers one after the other and changes
\* this.state up to three times when it starts in STATE_INIT and up to
\* twice otherwise, so a turn changes it at most 2 * stepsPerIteration + 1
\* times.
C10_IterationsPerTurn ==
    /\ stepsPerIteration = IF protoOptions.stepsPerIteration > 0
                           THEN protoOptions.stepsPerIteration
                           ELSE DefaultStepsPerIteration
    /\ i < stepsPerIteration
    /\ turnSteps <= 2 * (i + 1) + 1

\* C10 witness: a turn of two iterations changed this.state five times
C10_Witness ==
    /\ stepsPerIteration = 2
    /\ i = 1
    /\ turnSteps = 5

\* C13: the queue changes only by appending the active integrator when
\* it completes and by removing the head after its getNextValidSeed()
\* returned none; every integrator created after the first starts at the
\* seed the queue head returned; no integrator behind the head is asked
\* for a seed (its cursor lastCheckedSeed does not move).
C13_QueueOrder ==
    [][LET queue == finishedStreamlineIntegrators
           r == getNextValidSeed(integrators[Head(queue)], grid, options,
                                 options.seedArray)
       IN
       /\ queue' # queue =>
             \/ /\ pc = "next"
                /\ Active.state = DONE
                /\ queue' = Append(queue, streamlineIntegrator)
             \/ /\ pc = "seedStreamline"
                /\ queue # <<>>
                /\ r.seed = Undefined
                /\ queue' = Tail(queue)
       /\ (state = STATE_SEED_STREAMLINE /\ state' = STATE_STREAMLINE) =>
             /\ queue # <<>>
             /\ r.seed # Undefined
             /\ integrators'[streamlineIntegrator'].start = r.seed
             /\ integrators'[Head(queue)] = r.it
       /\ \A k \in 2..Len(queue) :
             integrators'[queue[k]].lastCheckedSeed
                = integrators[queue[k]].lastCheckedSeed
    ]_vars

\* C13 witness: two streamlines are queued, the head has been asked for
\* seeds and the one behind it has not, and an integrator seeded from the
\* head is growing
C13_Witness ==
    /\ Len(finishedStreamlineIntegrators) = 2
    /\ state = STATE_STREAMLINE
    /\ streamlineIntegrator \notin Range(finishedStreamlineIntegrators)
    /\ integrators[finishedStreamlineIntegrators[1]].lastCheckedSeed >= 0
    /\ integrators[finishedStreamlineIntegrators[2]].lastCheckedSeed = -1
    /\ Len(Active.points) > 1

\* the constructor was called with a configuration object
Called == pc # "new" /\ protoOptions # Undefined

\* C14 as stated: constructing with a configuration that has no bounding
\* box raises an error and creates no scheduler.
C14_MissingBoxFails ==
    (Called /\ protoOptions.boundingBox = Undefined) => pc = "thrown"

\* C14: constructing with a configuration that has no bounding box
\* succeeds: the scheduler is created with the box {left -5, top -5,
\* width 10, height 10}, which its options and its grid hold.
C14_MissingBoxDefault ==
    (Called /\ protoOptions.boundingBox = Undefined) =>
       /\ pc = "idle"
       /\ error = ""
       /\ options.boundingBox = [left |-> -5 * One, top |-> -5 * One,
                                 width |-> 10 * One, height |-> 10 * One]
       /\ grid.bbox = options.boundingBox

\* C14 witness: a scheduler constructed without a bounding box
C14_Witness ==
    /\ Called
    /\ protoOptions.boundingBox = Undefined
    /\ pc = "idle"
    /\ integrators[1] # Undefined

\* a number in the sense of assertNumber
IsNumber(x) == typeof(x) = "number" /\ ~isNaN(x)

\* C15: a bounding box whose left, top, width or height is not a number,
\* or whose width or height is <= 0, size (when it is a number) standing
\* for both width and height, makes the constructor throw.
C15_InvalidBoxFails ==
    (Called /\ protoOptions.boundingBox # Undefined) =>
       LET bbox   == protoOptions.boundingBox
           sized  == "size" \in DOMAIN bbox /\ typeof(bbox.size) = "number"
           width  == IF sized THEN bbox.size ELSE bbox.width
           height == IF sized THEN bbox.size ELSE bbox.height
           nonPositive(x) == IsNumber(x) /\ x.value <= 0
       IN (\/ ~IsNumber(bbox.left) \/ ~IsNumber(bbox.top)
           \/ ~IsNumber(width) \/ ~IsNumber(height)
           \/ nonPositive(width) \/ nonPositive(height))
          => (pc = "thrown" /\ error # "" /\ options = Undefined)

\* C15 witness: the constructor threw for a box whose size shorthand is 0
\* although its width and height are positive
C15_Witness ==
    /\ Called
    /\ pc = "thrown"
    /\ error = "Bounding box cannot be empty"
    /\ protoOptions.boundingBox # Undefined
    /\ "size" \in DOMAIN protoOptions.boundingBox
    /\ protoOptions.boundingBox.size = Number(0)
    /\ protoOptions.boundingBox.width = Number(12)

\* C16: constructing with a configuration that has no vectorField makes
\* the constructor throw.
C16_MissingFieldFails ==
    (Called /\ protoOptions.vectorField = NoField) => pc = "thrown"

\* C17: after construction dSep is the supplied value when it is > 0 and
\* 1 / max(width, height) otherwise; dTest is the supplied value when it
\* is > 0 and half the resolved dSep otherwise; the shared grid is created
\* with the resolved dSep for spacing.
C17_ResolvedDistances ==
    (Called /\ pc = "idle") =>
       LET w == options.boundingBox.width
           h == options.boundingBox.height
           dSep == IF protoOptions.dSep > 0 THEN protoOptions.dSep
                   ELSE (One * One) \div (IF w > h THEN w ELSE h)
       IN /\ options.dSep = dSep
          /\ options.dTest = IF protoOptions.dTest > 0 THEN protoOptions.dTest
                             ELSE dSep \div 2
          /\ grid.dSep = [num |-> dSep, den |-> 1]
          /\ grid.bbox = options.boundingBox

\* C17 witness: a scheduler constructed for a box wider than high with
\* neither dSep nor dTest supplied
C17_Witness ==
    /\ Called
    /\ pc = "idle"
    /\ protoOptions.dSep = 0
    /\ protoOptions.dTest = 0
    /\ options.boundingBox.width > options.boundingBox.height
    /\ options.dTest * 2 = options.dSep

\* C11: in synchronous mode, when run() returns the scheduler state is
\* DONE, no further turn is pending and no error was raised (stated for
\* the configurations whose seed lies inside the box).
C11_SyncRunDrains ==
    (/\ ~protoOptions.async
     /\ ~isOutside(grid, options.seed.x, options.seed.y)
     /\ turn = "run"
     /\ pc = "idle")
       => (state = STATE_DONE /\ timeouts = 0 /\ error = "")

\* C12: when the caller asks for asynchronous mode, run() performs no
\* scheduler step itself: nextStep is called by the host timer only.
C12_AsyncRunDefers ==
    protoOptions.async => turn # "run"

\* the seed sequence the caller gave, when it gave one
SeedSequence ==
    IF protoOptions.seed.kind = "array" THEN protoOptions.seed.array ELSE <<>>

\* the test a candidate (cx, cy) has to pass in getNextValidSeed
ValidSeed(g, config, c) ==
    /\ ~isOutside(g, c.x, c.y)
    /\ ~isTaken(g, c.x, c.y, bind("checkDSep", config))

\* C18 as stated: with a seed sequence, the first integrator starts at its
\* first point and, as long as points of the sequence are left, every
\* integrator the scheduler creates starts at the next of them; no point
\* of the sequence is dropped without an integrator being seeded at it.
C18_SequenceSeedsFirst ==
    /\ (SeedSequence # <<>>) => (options.seed = Head(SeedSequence))
    /\ [][/\ (state' = STATE_STREAMLINE /\ state = STATE_SEED_STREAMLINE
                /\ options.seedArray # <<>>)
             => integrators'[streamlineIntegrator'].start
                   = Head(options.seedArray)
          /\ options'.seedArray # options.seedArray
             => /\ state' = STATE_STREAMLINE
                /\ options'.seedArray = Tail(options.seedArray)
         ]_vars

\* C18: the first integrator starts at the first point of the sequence,
\* whatever that point is.  Each later point is taken from the queue by a
\* call of getNextValidSeed and is gone afterwards; the next integrator
\* is seeded exactly at it when it is inside the box and not taken in the
\* shared grid (dSep predicate), and at no time at a point the test
\* rejected.
C18_SequenceSeedsWhenValid ==
    /\ (SeedSequence # <<>>) => (options.seed = Head(SeedSequence))
    /\ [][options'.seedArray # options.seedArray
             => LET q == Head(options.seedArray) IN
                /\ pc = "seedStreamline"
                /\ \E k \in 1..Len(options.seedArray) :
                      options'.seedArray = SubSeq(options.seedArray, k + 1,
                                                  Len(options.seedArray))
                /\ IF ValidSeed(grid, options, q)
                   THEN /\ state' = STATE_STREAMLINE
                        /\ integrators'[streamlineIntegrator'].start = q
                        /\ options'.seedArray = Tail(options.seedArray)
                   ELSE state' = STATE_STREAMLINE
                           => integrators'[streamlineIntegrator'].start # q
         ]_vars

\* C18 witness: the three points of the sequence seeded the first three
\* integrators, in order
C18_Witness ==
    /\ Len(SeedSequence) = 3
    /\ options.seedArray = <<>>
    /\ Len(finishedStreamlineIntegrators) = 2
    /\ streamlineIntegrator \notin Range(finishedStreamlineIntegrators)
    /\ integrators[finishedStreamlineIntegrators[1]].start = SeedSequence[1]
    /\ integrators[finishedStreamlineIntegrators[2]].start = SeedSequence[2]
    /\ Active.start = SeedSequence[3]

\* C19: whenever the scheduler is about to call getNextValidSeed() on the
\* queue head, the seed that call returns (geometric or taken from the
\* seed queue), if any, is inside the bounding box and no point committed
\* to the shared grid is closer to it than dSep - 1e-4.
C19_ReturnedSeedValid ==
    (pc = "seedStreamline" /\ finishedStreamlineIntegrators # <<>>) =>
       LET r == getNextValidSeed(integrators[currentStreamLine], grid,
                                 options, options.seedArray)
       IN r.seed # Undefined =>
             /\ ~isOutside(grid, r.seed.x, r.seed.y)
             /\ \A p \in grid.cells :
                   ~SqrtLess(DistSq(p, r.seed.x, r.seed.y),
                             options.dSep - Eps)

lessThan(t) == bind("lessThan", [threshold |-> t])

\* the lattice points of the box that isOutside accepts
InBox(g) ==
    {q \in [x : g.bbox.left..(g.bbox.left + g.bbox.width),
            y : g.bbox.top..(g.bbox.top + g.bbox.height)] :
        ~isOutside(g, q.x, q.y)}

\* the points whose cell index is one of 0 .. cellsCount - 1, that is the
\* points off the far edge of the grid
InCells(g, q) == gridX(g, q.x) < g.cellsCount /\ gridY(g, q.y) < g.cellsCount

\* the spacing the grid was created with, as a whole number of units
Spacing(g) == g.dSep.num \div g.dSep.den

\* C21: for every grid a caller has filled, every query point inside the
\* box and every threshold t <= spacing, isTaken with d -> d < t answers
\* as the scan of all stored points does.  Stated for stored points and
\* query points off the far edge of the grid.
C21_ScanComplete ==
    pc = "grid" =>
       \A q \in InBox(grid) : \A t \in 1..Spacing(grid) :
          InCells(grid, q) =>
             (isTaken(grid, q.x, q.y, lessThan(t))
                <=> \E p \in grid.cells :
                       InCells(grid, p) /\ SqrtLess(DistSq(p, q.x, q.y), t))

\* squared distances the predicates are asked about
MaxDistSq == 64

\* |sqrt(d2) - num / den| < 1e-4
WithinEps(d2, num, den) ==
    /\ den * den * d2 < (num + den * Eps) * (num + den * Eps)
    /\ \/ num - den * Eps < 0
       \/ den * den * d2 > (num - den * Eps) * (num - den * Eps)

\* what the guarded comparison against the threshold num / den answers:
\* not taken within 1e-4 of the threshold, otherwise sqrt(d2) < num / den
GuardedLess(d2, num, den) ==
    /\ ~WithinEps(d2, num, den)
    /\ num > 0
    /\ den * den * d2 < num * num

\* C22: each of the three predicates (dTest and dSep against the shared
\* grid, 0.9 * timeStep against the private grid) answers not taken when
\* the distance is within 1e-4 of its threshold, and otherwise answers
\* taken exactly when the distance is below the threshold.
C22_FuzzyThresholds ==
    pc = "grid" =>
       \A d2 \in 0..MaxDistSq :
          /\ call(bind("checkDTest", options), d2)
                = GuardedLess(d2, options.dTest, 1)
          /\ call(bind("checkDSep", options), d2)
                = GuardedLess(d2, options.dSep, 1)
          /\ call(bind("timeStepCheck", options), d2)
                = GuardedLess(d2, 9 * options.timeStep, 10)

\* why the candidate of the integrator it, growing in the direction of
\* its state, is rejected: "singular" (rk4 found the field undefined, NaN
\* or of zero length at a sample), "outside", "taken" (shared grid, dTest),
\* "self" (private grid), or "none" when it is accepted
Rejection(it) ==
    LET velocity == rk4(it.pos, options.timeStep, options.vectorField) IN
    IF velocity = Undefined THEN "singular"
    ELSE
    LET c == add(it.pos, IF it.state = BACKWARD THEN mulScalar(velocity, -1)
                         ELSE velocity)
    IN
    IF isOutside(grid, c.x, c.y) THEN "outside"
    ELSE IF isTaken(grid, c.x, c.y, bind("checkDTest", options)) THEN "taken"
    ELSE IF isTaken(it.ownGrid, c.x, c.y, bind("timeStepCheck", options))
    THEN "self"
    ELSE "none"

\* C23: a pass of next() whose candidate is rejected, for whichever
\* reason, raises no error, keeps every point and moves the integrator to
\* its next state (FORWARD to BACKWARD, or to DONE with forwardOnly;
\* BACKWARD to DONE); the state of an integrator never goes back, and
\* points are added at the tail in FORWARD only and at the head in
\* BACKWARD only, so a direction that ended never grows again.
C23_RejectionEndsDirection ==
    [][(pc = "next" /\ streamlineIntegrator' = streamlineIntegrator
          /\ integrators' # integrators /\ Active.state # DONE) =>
          LET it  == Active
              it1 == integrators'[streamlineIntegrator]
          IN /\ Rejection(it) # "none" =>
                   /\ error' = error
                   /\ it1.points = it.points
                   /\ it1.state = IF it.state = BACKWARD \/ options.forwardOnly
                                  THEN DONE ELSE BACKWARD
             /\ Rejection(it) = "none" =>
                   /\ it1.state = it.state
                   /\ Len(it1.points) = Len(it.points) + 1
                   /\ IF it.state = FORWARD
                      THEN SubSeq(it1.points, 1, Len(it.points)) = it.points
                      ELSE Tail(it1.points) = it.points
             /\ it1.state >= it.state
      ]_vars

\* C23 witness: an integrator that grew both ways in the field with the
\* singular region has had both directions ended and holds its points,
\* and no error was raised
C23_Witness ==
    /\ pc = "next"
    /\ options.vectorField = "gap"
    /\ ~options.forwardOnly
    /\ Active.state = DONE
    /\ Active.committed = 0
    /\ Len(Active.points) >= 2
    /\ error = ""

\* the first call of next() has returned or thrown
FirstNextOver == turn # "none" /\ pc # "next"

\* C24: with the field that is zero everywhere, once the first call of
\* next() is over the initial integrator is DONE and committed, its only
\* point is the seed, nothing was queued and no other integrator was
\* created, and the scheduler is in PROCESS_QUEUE or DONE, in DONE when
\* the turn has ended; for both settings of forwardOnly.
C24_ZeroFieldCompletes ==
    options.vectorField = "zero" =>
       /\ streamlineIntegrator = 1
       /\ finishedStreamlineIntegrators = <<>>
       /\ Active.points = <<options.seed>>
       /\ FirstNextOver =>
             /\ Active.state = DONE
             /\ Active.committed = 1
             /\ state \in {STATE_PROCESS_QUEUE, STATE_DONE}
             /\ pc = "idle" => state = STATE_DONE

\* C25: the point sequence of an integrator changes only by one point
\* appended at its tail while the integrator is in FORWARD, or by one point
\* put before its head while it is in BACKWARD; every element it had stays,
\* in the same order.  With forwardOnly the seed is the first element of
\* every sequence, and in every case the seed is an element of it.
C25_GrowsAtEnds ==
    /\ [](\A id \in Live :
             /\ \E k \in 1..Len(integrators[id].points) :
                   integrators[id].points[k] = integrators[id].start
             /\ options.forwardOnly =>
                   integrators[id].points[1] = integrators[id].start)
    /\ [][\A id \in Ids :
             (SameObject(id)
                /\ integrators'[id].points # integrators[id].points) =>
                LET before == integrators[id].points
                    after  == integrators'[id].points
                IN /\ Len(after) = Len(before) + 1
                   /\ IF integrators[id].state = FORWARD
                      THEN SubSeq(after, 1, Len(before)) = before
                      ELSE /\ integrators[id].state = BACKWARD
                           /\ Tail(after) = before
         ]_vars

\* C25 witness: an integrator that grew at both ends: its seed is neither
\* its first nor its last point
C25_Witness ==
    /\ Len(Active.points) >= 3
    /\ Active.points[1] # Active.start
    /\ Active.points[Len(Active.points)] # Active.start
    /\ Active.state = DONE

\* C26: when onPointAdded returns a truthy value, next() returns leaving
\* the integrator, the shared grid, the queue and the scheduler state as
\* they are (no completion is reported); a growing integrator stands on
\* the point it accepted last, at the tail in FORWARD and at the head in
\* BACKWARD, so the next call of next() goes on from there in the same
\* direction; and the sequence the integrator would end with if it were
\* never paused again is the same before and after every step, so
\* whatever the pauses, it ends with the sequence of the run that never
\* pauses.
C26_PauseResumes ==
    /\ [](/\ Active.state = FORWARD =>
                Active.pos = Active.points[Len(Active.points)]
          /\ Active.state = BACKWARD => Active.pos = Active.points[1])
    /\ [][/\ (pc = "onPointAdded" /\ pc' \notin {"next", "onPointAdded"}) =>
                /\ integrators' = integrators
                /\ grid' = grid
                /\ state' = state
                /\ finishedStreamlineIntegrators' = finishedStreamlineIntegrators
                /\ Active.state # DONE
          /\ (SameObject(streamlineIntegrator)
                /\ streamlineIntegrator' = streamlineIntegrator
                /\ Active.state # DONE) =>
                nextUnpaused(integrators'[streamlineIntegrator], grid',
                             options')
                   = nextUnpaused(Active, grid, options)
         ]_vars

\* C26 witness: the call of next() in progress found the integrator DONE
\* without adding a point, so the three or more points it holds were added
\* by earlier calls, each of which a pause ended
C26_Witness ==
    /\ pc = "next"
    /\ options.onPointAdded
    /\ Active.state = DONE
    /\ Active.committed = 0
    /\ added = 0
    /\ Len(Active.points) >= 3
    /\ Active.points[1] # Active.start

\* C27: when the configuration names no seed and configures a random
\* source, the initial seed the constructor computes is the point that
\* source yields, so that two constructions from one configuration start
\* from the same seed.
C27_SeedFromConfiguredRandom ==
    (/\ Called
     /\ pc = "idle"
     /\ protoOptions.seed = NoSeed
     /\ protoOptions.random # Undefined)
       => options.seed = RandomPoint(options.boundingBox, protoOptions.random)

\* the integrators in the finished queue
Queued == Range(finishedStreamlineIntegrators)

\* C28: an integrator in the finished queue is DONE, and next() is never
\* in progress on it; as long as it stays in the queue its start, its
\* points and its private grid do not change (only lastCheckedSeed may);
\* and it leaves the queue only as the head, popped by seedStreamline
\* when its getNextValidSeed() returned none.
C28_QueuedReadOnly ==
    /\ [](\A id \in Queued : integrators[id].state = DONE)
    /\ [](pc \in {"next", "onPointAdded"} => streamlineIntegrator \notin Queued)
    /\ [][\A id \in Queued :
             IF id \in Queued'
             THEN /\ integrators'[id].state = DONE
                  /\ integrators'[id].start = integrators[id].start
                  /\ integrators'[id].points = integrators[id].points
                  /\ integrators'[id].ownGrid = integrators[id].ownGrid
                  /\ integrators'[id].lastCheckedSeed
                        >= integrators[id].lastCheckedSeed
             ELSE /\ id = Head(finishedStreamlineIntegrators)
                  /\ finishedStreamlineIntegrators'
                        = Tail(finishedStreamlineIntegrators)
                  /\ pc = "seedStreamline"
                  /\ getNextValidSeed(integrators[id], grid, options,
                                      options.seedArray).seed = Undefined
         ]_vars

\* C28 witness: the queue head has handed out seeds from beyond its
\* first point and its points are as it completed them, while an
\* integrator seeded from it grows backward
C28_Witness ==
    /\ finishedStreamlineIntegrators # <<>>
    /\ integrators[Head(finishedStreamlineIntegrators)].lastCheckedSeed >= 1
    /\ integrators[Head(finishedStreamlineIntegrators)].committed
          = Len(integrators[Head(finishedStreamlineIntegrators)].points)
    /\ streamlineIntegrator \notin Queued
    /\ Active.state = BACKWARD
    /\ pc = "next"

\* the two geometric candidates of the point p: p + dSep * n and
\* p - dSep * n, where n = (-v.y, v.x) and v is the unit field at p
FirstSide(p) ==
    LET v == normalizedVectorField(options.vectorField, p) IN
    Vector(p.x - v.y * options.dSep, p.y + v.x * options.dSep)

OtherSide(p) ==
    LET v == normalizedVectorField(options.vectorField, p) IN
    Vector(p.x + v.y * options.dSep, p.y - v.x * options.dSep)

\* the integrator that seedStreamline asks, before and after the call
Asked == integrators[currentStreamLine]

AskedAfter == integrators'[currentStreamLine]

\* a step in which getNextValidSeed() returned a seed
SeedReturned ==
    /\ pc = "seedStreamline"
    /\ finishedStreamlineIntegrators # <<>>
    /\ state' = STATE_STREAMLINE

\* C29 as stated: no point is examined twice, so a call that returned a
\* seed leaves the cursor on the point it examined last, beyond where the
\* call found it.
C29_NeverRescanned ==
    [][SeedReturned => AskedAfter.lastCheckedSeed > Asked.lastCheckedSeed
      ]_vars

\* C29: lastCheckedSeed of an integrator stays within -1 .. points.length
\* - 1, is moved by seedStreamline on the queue head only, and is never
\* lower after a call of getNextValidSeed() than before it.  A call that
\* returns the other-side candidate of a point leaves the cursor on that
\* point; a call that returns the first-side candidate of a point, or the
\* seed-queue point that took its place, leaves the cursor before that
\* point, which the next call examines again.
C29_CursorMonotone ==
    /\ [](\A id \in Live :
             /\ integrators[id].lastCheckedSeed >= -1
             /\ integrators[id].lastCheckedSeed
                   <= Len(integrators[id].points) - 1)
    /\ [][/\ \A id \in Ids :
                (SameObject(id) /\ integrators'[id].lastCheckedSeed
                                      # integrators[id].lastCheckedSeed) =>
                   /\ pc = "seedStreamline"
                   /\ id = currentStreamLine
                   /\ integrators'[id].lastCheckedSeed
                         > integrators[id].lastCheckedSeed
          /\ SeedReturned =>
                LET b    == AskedAfter.lastCheckedSeed
                    seed == integrators'[streamlineIntegrator'].start
                IN \/ /\ b >= 0
                      /\ seed = OtherSide(Asked.points[b + 1])
                   \/ /\ b + 2 <= Len(Asked.points)
                      /\ \/ seed = FirstSide(Asked.points[b + 2])
                         \/ seed \in Range(options.seedArray)
         ]_vars

\* C29 witness: the integrator growing was seeded at the first-side
\* candidate of a point of the queue head, and the head's cursor stands
\* before that point: the next call examines it a second time
C29_Witness ==
    /\ finishedStreamlineIntegrators # <<>>
    /\ streamlineIntegrator \notin Queued
    /\ Asked.lastCheckedSeed + 2 <= Len(Asked.points)
    /\ Asked.lastCheckedSeed >= 0
    /\ Active.start = FirstSide(Asked.points[Asked.lastCheckedSeed + 2])

\* the field at p is not singular
Regular(p) == normalizedVectorField(options.vectorField, p) # Undefined

\* what getNextValidSeed() returns to the call seedStreamline is about to
\* make
Answer ==
    getNextValidSeed(Asked, grid, options, options.seedArray)

\* seedStreamline is about to ask the queue head, and will be told none
NoneReturned ==
    /\ pc = "seedStreamline"
    /\ finishedStreamlineIntegrators # <<>>
    /\ Answer.seed = Undefined

OpenFirstSides ==
    {k \in 1..Len(Asked.points) :
        /\ Regular(Asked.points[k])
        /\ ValidSeed(grid, options, FirstSide(Asked.points[k]))}

RegularIn(lo, hi) ==
    Cardinality({k \in lo..hi : Regular(Asked.points[k + 1])})

\* how many elements the call seedStreamline is about to make removes
\* from the seed queue
Consumed == Len(options.seedArray) - Len(Answer.seedArray)

\* the call examines the points from the cursor on up to the 0-based
\* position e, and removed one queue element for each of them where the
\* field is not singular, as long as elements were left
ExaminedTo(e) ==
    /\ e <= Len(Asked.points) - 1
    /\ Consumed = IF RegularIn(Asked.lastCheckedSeed + 1, e)
                        < Len(options.seedArray)
                  THEN RegularIn(Asked.lastCheckedSeed + 1, e)
                  ELSE Len(options.seedArray)
    /\ Answer.seedArray = SubSeq(options.seedArray, Consumed + 1,
                                 Len(options.seedArray))

\* C31: a call of getNextValidSeed() removes from the seed queue one
\* element for each point it examines where the field is not singular,
\* for as long as the queue is not empty, and none at a point where the
\* field is singular.  The element takes the place of the first-side
\* candidate of that point: a seed returned on the first side is the
\* element removed last, a seed returned on the other side is the
\* geometric candidate.  The element is gone whether the test accepted
\* it or not: the queue only ever loses elements from its front, and only
\* in seedStreamline.
C31_OneElementPerPoint ==
    /\ []((pc = "seedStreamline" /\ finishedStreamlineIntegrators # <<>>) =>
            LET b == Answer.it.lastCheckedSeed IN
            IF Answer.seed = Undefined
            THEN ExaminedTo(b)
            ELSE \/ /\ ExaminedTo(b + 1)
                    /\ Regular(Asked.points[b + 2])
                    /\ Answer.seed =
                          IF RegularIn(Asked.lastCheckedSeed + 1, b + 1)
                                <= Len(options.seedArray)
                          THEN options.seedArray[Consumed]
                          ELSE FirstSide(Asked.points[b + 2])
                 \/ /\ b >= 0
                    /\ ExaminedTo(b)
                    /\ Regular(Asked.points[b + 1])
                    /\ Answer.seed = OtherSide(Asked.points[b + 1]))
    /\ [][options'.seedArray # options.seedArray =>
             /\ pc = "seedStreamline"
             /\ options'.seedArray = Answer.seedArray
             /\ Consumed >= 1
         ]_vars

\* C31 witness: the call about to be made examines two points with two
\* elements in the seed queue; it removes the first element, which the
\* test rejects, at the first point, and leaves the second in the queue
\* at the last point, where the field is singular
C31_Witness ==
    /\ pc = "seedStreamline"
    /\ finishedStreamlineIntegrators # <<>>
    /\ Len(options.seedArray) = 2
    /\ Asked.lastCheckedSeed = -1
    /\ Len(Asked.points) = 2
    /\ Regular(Asked.points[1])
    /\ ~Regular(Asked.points[2])
    /\ ~ValidSeed(grid, options, Head(options.seedArray))
    /\ Answer.seed = Undefined
    /\ Answer.seedArray = Tail(options.seedArray)

\* C32: dispose() called from a callback changes neither the position of
\* the turn in progress nor anything the turn works on.  The turn goes on
\* to the end of its loop: unless an error is thrown it ends in the test
\* that ends a turn without dispose(), and it schedules its follow-up
\* turn all the same.  A turn that starts once dispose() was called,
\* that follow-up turn included, returns at once and changes nothing.
C32_DisposeInTurn ==
    [][/\ (~disposed /\ disposed') =>
             UNCHANGED <<pc, i, state, streamlineIntegrator,
                         finishedStreamlineIntegrators, integrators, grid>>
       /\ (disposed /\ pc # "idle" /\ pc' = "idle" /\ error' = error) =>
             /\ pc = "tail"
             /\ nextTimeout'
             /\ timeouts' = timeouts + 1
       /\ (disposed /\ pc = "idle") =>
             UNCHANGED <<pc, state, streamlineIntegrator,
                         finishedStreamlineIntegrators, integrators, grid>>
      ]_vars

\* C32 witness: dispose() was called from onStreamlineAdded; the turn
\* went on, set the scheduler state, asked the queue head for a seed,
\* created the integrator for it and ended with its follow-up turn
\* scheduled
C32_Witness ==
    /\ disposed
    /\ ~options.onPointAdded
    /\ pc = "idle"
    /\ nextTimeout
    /\ timeouts > 0
    /\ state = STATE_STREAMLINE
    /\ finishedStreamlineIntegrators # <<>>
    /\ streamlineIntegrator \notin Queued
    /\ Active.start # options.seed

\* a turn ends on the time budget or the step count: no error has been
\* thrown, none is thrown now and resolve is not called
TurnCut ==
    /\ pc = "tail"
    /\ pc' = "idle"
    /\ error = ""
    /\ error' = ""
    /\ resolved' = resolved

\* the scheduler was DONE when the turn began, no error has been thrown,
\* and the turn ends without being cut
DoneTurnEnds ==
    /\ pc = "tail"
    /\ state = STATE_DONE
    /\ turnSteps = 0
    /\ error = ""
    /\ pc' = "idle"
    /\ timeouts' = timeouts

\* C33: a turn cut by the time budget schedules a follow-up turn and
\* leaves the scheduler state, the queue, the integrators and the shared
\* grid as the last iteration left them; when the scheduler was DONE at
\* the cut, a later turn that is not cut itself reports the completion.
C33_BudgetLosesNothing ==
    [][/\ TurnCut =>
             /\ nextTimeout'
             /\ timeouts' = timeouts + 1
             /\ UNCHANGED <<state, streamlineIntegrator,
                            finishedStreamlineIntegrators, integrators,
                            grid, options>>
       /\ DoneTurnEnds => (resolved' = resolved + 1 /\ error' = error)
      ]_vars

\* C34: in every reachable state, any two points of one integrator, its
\* seed included, are at least 0.9 * timeStep apart.
C34_SelfSeparation ==
    \A id \in Live :
       \A j, k \in 1..Len(integrators[id].points) :
          j < k =>
             ~timeStepCheck(DistSq(integrators[id].points[j],
                                   integrators[id].points[k].x,
                                   integrators[id].points[k].y),
                            options)

\* C35: the seed a call of getNextValidSeed() is about to return is not a
\* point stored in the shared grid already, that is, not a seed an
\* earlier call returned and whose integrator has completed.
C35_SeedProposedOnce ==
    (pc = "seedStreamline" /\ finishedStreamlineIntegrators # <<>>) =>
       (Answer.seed # Undefined => Answer.seed \notin grid.cells)

\* C36: every point the grid stores that isOutside reports as inside the
\* box, the points on its right and bottom edge included, sits in a cell
\* whose column and row are both in 0 .. cellsCount - 1, the cells that
\* isTaken and findNearest visit.
C36_StoredInScannedCells ==
    \A p \in grid.cells :
       ~isOutside(grid, p.x, p.y) =>
          /\ gridX(grid, p.x) \in 0..(grid.cellsCount - 1)
          /\ gridY(grid, p.y) \in 0..(grid.cellsCount - 1)

\* C37: whenever the scheduler state is SEED_STREAMLINE the finished
\* queue is not empty, and so it is whenever seedStreamline is about to
\* run: currentStreamLine is never undefined.
C37_SeedQueryHasHead ==
    /\ state = STATE_SEED_STREAMLINE => finishedStreamlineIntegrators # <<>>
    /\ pc = "seedStreamline" => finishedStreamlineIntegrators # <<>>

\* C37 witness: a spawned integrator completed with its seed alone and
\* was not queued; seedStreamline is about to ask the queue head again
C37_Witness ==
    /\ pc = "seedStreamline"
    /\ state = STATE_SEED_STREAMLINE
    /\ Active.state = DONE
    /\ Len(Active.points) = 1
    /\ Active.start # options.seed
    /\ streamlineIntegrator \notin Queued
    /\ finishedStreamlineIntegrators # <<>>

\* the DONE block of next() runs on the active integrator
Completes == pc = "next" /\ Active.state = DONE

\* C38: when the active integrator completes, it is appended to the
\* finished queue exactly when it has more than one point, and
\* onStreamlineAdded (when configured) is invoked exactly then; it is not
\* in the queue already, so neither happens twice.  With the seed alone
\* the queue is left as it is and nothing is announced.  In both cases
\* all of its points are in the shared grid afterwards.
C38_QueuedIffGrown ==
    [][Completes =>
          /\ streamlineIntegrator \notin Queued
          /\ Range(Active.points) \subseteq grid'.cells
          /\ IF Len(Active.points) > 1
             THEN /\ finishedStreamlineIntegrators' =
                        Append(finishedStreamlineIntegrators,
                               streamlineIntegrator)
                  /\ options.onStreamlineAdded <=> pc' = "onStreamlineAdded"
             ELSE /\ UNCHANGED finishedStreamlineIntegrators
                  /\ pc' # "onStreamlineAdded"
      ]_vars

\* C39: at most one nextStep callback is scheduled at any time, however
\* often run() is called.
C39_OnePendingTurn ==
    timeouts <= 1

====
